---- MODULE Spec2Model ----
(***************************************************************************)
(* note-board: the in-memory clipboard store of src/main.go.               *)
(*                                                                         *)
(* ValueStore is a map from identifier to storedValue{value, timestamp}    *)
(* guarded by one sync.RWMutex, with a TTL fixed at construction.  Request *)
(* goroutines call Set and Get; one background goroutine sweeps expired    *)
(* entries on every tick of a ticker.                                      *)
(*                                                                         *)
(* Granularity.  Taking a lock and the map access made under it are one    *)
(* step: nothing can observe the map between the two, and a goroutine that *)
(* holds the lock for a while before it touches the map behaves like one   *)
(* that took the lock later.  Releasing a lock is a step of its own, and   *)
(* so is every reading of the clock made outside a lock (Get's test of the *)
(* age at main.go:47, the sweep's now at main.go:62), so the clock may     *)
(* advance and other goroutines may run between a lookup, the test of its  *)
(* result and the delete that follows.  A local that is not read again is  *)
(* reset to its zero value.                                                *)
(*                                                                         *)
(* Specifications.  Spec is the store with its callers free to call Set    *)
(* and Get with any arguments.  HttpSpec is the server: every call is made *)
(* by the handler of main.go:77-125.  SweepSpec is the store that is       *)
(* written and swept but never read, and FairSpec the store under fair     *)
(* scheduling; both state the fairness the liveness properties need.       *)
(***************************************************************************)
EXTENDS Integers, Sequences, FiniteSets, TLC

\* ------------------------------------------------------------------ bounds
\* The clock runs over 0..MaxTime and the request goroutines make at most
\* MaxCalls calls in all.
MaxTime == 2
MaxCalls == 3

\* The TTL the program gives to NewValueStore: 24 * time.Hour (main.go:75).
\* One tick of the clock is that long, so an entry can be younger than the
\* TTL (age 0), exactly as old (age 1) or older.
TTL == 1

Procs == {"p1", "p2"}
Ids == {"a", "b"}
Values == {"", "v1"}
TTLs == {TTL}

\* No goroutine: the value of mu.w when the exclusive lock is free.
NoOne == "none"
Sweeper == "sweeper"

VARIABLES
  clock,    \* the wall clock read by time.Now / time.Since
  ttl,      \* vs.ttl
  values,   \* vs.values: a function whose domain is the set of stored ids
  mu,       \* vs.mu: [w |-> holder of the exclusive lock, r |-> set of readers]
  pc,       \* where each request goroutine stands
  id,       \* the id argument of the call in progress
  value,    \* the value argument of the Set in progress
  val,      \* Get's local val (main.go:44)
  exists,   \* Get's local exists (main.go:44)
  spc,      \* where the cleanup goroutine stands
  now,      \* the cleanup goroutine's local now (main.go:62)
  ncalls,   \* calls made so far by the request goroutines
  \* ---- history variables: written by the actions, read by none of them to
  \* decide a step or a value of the variables above
  lastSet,  \* per id, the Set that acquired the lock last: <<>> or <<its write>>
  overlap,  \* per id, whether the latest Set wrote while a Get held an older lookup
  setArgs,  \* per id, the values some Set(id, .) call was made with
  obs,      \* what the Get in progress observed at its lookup
  unswept,  \* vs.values as it would be had the cleanup routine deleted nothing
  done      \* the call whose result the step just taken has settled, if any

vars == <<clock, ttl, values, mu, pc, id, value, val, exists, spc, now, ncalls,
          lastSet, overlap, setArgs, obs, unswept, done>>

\* ------------------------------------------------------------- data types
\* Variant: the timestamp field is left at its zero value.
storedValueNoTime(v, t) == [value |-> v, timestamp |-> 0 - (MaxTime + TTL + 1)]

\* storedValue (main.go:11-14)
storedValue(v, t) == [value |-> v, timestamp |-> t]

\* The zero time.Time: further in the past than any TTL reaches.
ZeroTime == 0 - (MaxTime + TTL + 1)

\* The zero storedValue a failed map lookup yields.
ZeroValue == storedValue("", ZeroTime)

\* The empty map made by make(map[string]storedValue).
EmptyMap == [j \in {} |-> ZeroValue]

\* History records: what a Get observed at its lookup, and a settled call
\* (a Set is settled by its write, a Get by its test of main.go:47; the delete
\* of main.go:49 is recorded with the entry it removed, if any).
NoObs == [clean |-> FALSE, seen |-> <<>>, un |-> <<>>]
NoCall == [op |-> "none", by |-> "none", id |-> "", value |-> "", found |-> FALSE,
           at |-> 0, snap |-> <<>>, obs |-> NoObs]
\* The write a Set makes, as the history keeps it: what it stored, how many
\* writes the id has had, and what the write before it stored.
Write(v, t, h) ==
  [value |-> v, timestamp |-> t,
   n |-> IF h = <<>> THEN 1 ELSE h[1].n + 1,
   prior |-> IF h = <<>> THEN <<>>
             ELSE <<[value |-> h[1].value, timestamp |-> h[1].timestamp]>>]

\* ------------------------------------------------------------ sync.RWMutex
\* Variant: Lock does not wait for the readers to leave.
CanLockIgnoresReaders == mu.w = NoOne

\* Lock waits for the writer and for every reader; RLock for the writer only.
CanLock == mu.w = NoOne /\ mu.r = {}
CanRLock == mu.w = NoOne
Lock(g) == [mu EXCEPT !.w = g]
Unlock == [mu EXCEPT !.w = NoOne]
RLock(g) == [mu EXCEPT !.r = @ \cup {g}]
\* Variant: RUnlock forgets to remove the reader.
RUnlockKeeps(g) == mu

RUnlock(g) == [mu EXCEPT !.r = @ \ {g}]

\* ------------------------------------------------------------- map access
\* Variant: an overwrite stores the new value and keeps the old timestamp.
MapAssignKeepsTime(m, i, e) ==
  [j \in (DOMAIN m) \cup {i} |->
     IF j # i THEN m[j]
     ELSE IF i \in DOMAIN m THEN [e EXCEPT !.timestamp = m[i].timestamp]
     ELSE e]

\* Variant: the assignment builds a new map that holds the one id only.
MapAssignFresh(m, i, e) == [j \in {i} |-> e]

\* Variant: an id that is stored already keeps its entry (first write wins).
MapAssignIfAbsent(m, i, e) ==
  [j \in (DOMAIN m) \cup {i} |-> IF j = i /\ i \notin DOMAIN m THEN e ELSE m[j]]

\* vs.values[id] = e
MapAssign(m, i, e) == [j \in (DOMAIN m) \cup {i} |-> IF j = i THEN e ELSE m[j]]

\* Variant: the delete leaves the map as it is.
MapDeleteKeeps(m, i) == m

\* Variant: the delete empties the map.
MapDeleteAll(m, i) == [j \in {} |-> m[j]]

\* delete(vs.values, id): a no-op when id is not stored
MapDelete(m, i) == [j \in (DOMAIN m) \ {i} |-> m[j]]

\* Variant: the lookup ignores its key and yields some stored entry.
MapLookupAnyKey(m, i) ==
  IF DOMAIN m = {} THEN [val |-> [value |-> "", timestamp |-> 0 - (MaxTime + TTL + 1)],
                         exists |-> FALSE]
  ELSE [val |-> m[CHOOSE j \in DOMAIN m : TRUE], exists |-> TRUE]

\* val, exists := vs.values[id]
MapLookup(m, i) ==
  [val |-> IF i \in DOMAIN m THEN m[i] ELSE ZeroValue, exists |-> i \in DOMAIN m]

\* Variant: an entry whose age equals the TTL counts as expired.
ExpiredAtTTL(t, at) == at - t >= ttl

\* time.Since(t) > ttl, now.Sub(t) > ttl
Expired(t, at) == at - t > ttl

\* ------------------------------------------------------------------- Init
\* NewValueStore (main.go:22-31): an empty map, the given ttl, the cleanup
\* goroutine started and waiting for its first tick.
Init ==
  /\ clock = 0
  /\ ttl \in TTLs
  /\ values = EmptyMap
  /\ mu = [w |-> NoOne, r |-> {}]
  /\ pc = [p \in Procs |-> "idle"]
  /\ id = [p \in Procs |-> ""]
  /\ value = [p \in Procs |-> ""]
  /\ val = [p \in Procs |-> ZeroValue]
  /\ exists = [p \in Procs |-> FALSE]
  /\ spc = "wait"
  /\ now = 0
  /\ ncalls = 0
  /\ lastSet = [i \in Ids |-> <<>>]
  /\ overlap = [i \in Ids |-> FALSE]
  /\ setArgs = [i \in Ids |-> {}]
  /\ obs = [p \in Procs |-> NoObs]
  /\ unswept = EmptyMap
  /\ done = NoCall

\* ------------------------------------------------------------------ clock
Tick ==
  /\ clock < MaxTime
  /\ clock' = clock + 1
  /\ done' = NoCall
  /\ UNCHANGED <<ttl, values, mu, pc, id, value, val, exists, spc, now, ncalls,
                 lastSet, overlap, setArgs, obs, unswept>>

\* -------------------------------------------------------------------- Set
\* A request goroutine calls Set(i, v).
SetCall(p, i, v) ==
  /\ pc[p] = "idle"
  /\ ncalls < MaxCalls
  /\ pc' = [pc EXCEPT ![p] = "Set_Lock"]
  /\ id' = [id EXCEPT ![p] = i]
  /\ value' = [value EXCEPT ![p] = v]
  /\ ncalls' = ncalls + 1
  /\ setArgs' = [setArgs EXCEPT ![i] = @ \cup {v}]
  /\ done' = NoCall
  /\ UNCHANGED <<clock, ttl, values, mu, val, exists, spc, now,
                 lastSet, overlap, obs, unswept>>

\* Whether some Get of i holds a lookup it has not yet acted on to the end.
GetInFlight(i) ==
  \E q \in Procs : id[q] = i /\ pc[q] \in {"Get_Check", "Get_Lock"}

\* vs.mu.Lock() (main.go:34), then
\* vs.values[id] = storedValue{value: value, timestamp: time.Now()} (main.go:36-39);
\* id and value are not read again.
SetLock(p) ==
  /\ pc[p] = "Set_Lock"
  /\ CanLock
  /\ mu' = Lock(p)
  /\ values' = MapAssign(values, id[p], storedValue(value[p], clock))
  /\ pc' = [pc EXCEPT ![p] = "Set_Unlock"]
  /\ id' = [id EXCEPT ![p] = ""]
  /\ value' = [value EXCEPT ![p] = ""]
  /\ lastSet' = [lastSet EXCEPT ![id[p]] = <<Write(value[p], clock, @)>>]
  /\ overlap' = [overlap EXCEPT ![id[p]] = GetInFlight(id[p])]
  /\ done' = [NoCall EXCEPT !.op = "Set", !.by = p, !.id = id[p], !.value = value[p],
                            !.at = clock]
  /\ UNCHANGED <<clock, ttl, val, exists, spc, now, ncalls, setArgs, obs>>
  /\ unswept' = MapAssign(unswept, id[p], storedValue(value[p], clock))

\* the deferred vs.mu.Unlock() (main.go:35), and the return
SetUnlock(p) ==
  /\ pc[p] = "Set_Unlock"
  /\ mu' = Unlock
  /\ pc' = [pc EXCEPT ![p] = "idle"]
  /\ done' = NoCall
  /\ UNCHANGED <<clock, ttl, values, id, value, val, exists, spc, now, ncalls,
                 lastSet, overlap, setArgs, obs, unswept>>

\* -------------------------------------------------------------------- Get
\* A request goroutine calls Get(i).
GetCall(p, i) ==
  /\ pc[p] = "idle"
  /\ ncalls < MaxCalls
  /\ pc' = [pc EXCEPT ![p] = "Get_RLock"]
  /\ id' = [id EXCEPT ![p] = i]
  /\ ncalls' = ncalls + 1
  /\ done' = NoCall
  /\ UNCHANGED <<clock, ttl, values, mu, value, val, exists, spc, now,
                 lastSet, overlap, setArgs, obs, unswept>>

\* vs.mu.RLock(); val, exists := vs.values[id] (main.go:43-44)
GetRLock(p) ==
  /\ pc[p] = "Get_RLock"
  /\ CanRLock
  /\ mu' = RLock(p)
  /\ val' = [val EXCEPT ![p] = MapLookup(values, id[p]).val]
  /\ exists' = [exists EXCEPT ![p] = MapLookup(values, id[p]).exists]
  /\ pc' = [pc EXCEPT ![p] = "Get_RUnlock"]
  /\ obs' = [obs EXCEPT ![p] = [clean |-> ~overlap[id[p]], seen |-> lastSet[id[p]],
                                un |-> IF id[p] \in DOMAIN unswept
                                       THEN <<unswept[id[p]]>> ELSE <<>>]]
  /\ done' = NoCall
  /\ UNCHANGED <<clock, ttl, values, id, value, spc, now, ncalls,
                 lastSet, overlap, setArgs, unswept>>

\* vs.mu.RUnlock() (main.go:45)
GetRUnlock(p) ==
  /\ pc[p] = "Get_RUnlock"
  /\ mu' = RUnlock(p)
  /\ pc' = [pc EXCEPT ![p] = "Get_Check"]
  /\ done' = NoCall
  /\ UNCHANGED <<clock, ttl, values, id, value, val, exists, spc, now, ncalls,
                 lastSet, overlap, setArgs, obs, unswept>>

\* Variant: the test looks at exists only.
StaleIgnoresAge(p) == ~exists[p]

\* !exists || time.Since(val.timestamp) > vs.ttl (main.go:47)
Stale(p) == ~exists[p] \/ Expired(val[p].timestamp, clock)

\* The record of a Get whose test of main.go:47 settles that it returns r.
GetDone(p, r, f) ==
  [op |-> "Get", by |-> p, id |-> id[p], value |-> r, found |-> f, at |-> clock,
   snap |-> IF exists[p] THEN <<val[p]>> ELSE <<>>, obs |-> obs[p]]

\* Variant: a successful read stores the entry again with the current time.
GetLiveRefresh(p) ==
  /\ pc[p] = "Get_Check"
  /\ ~Stale(p)
  /\ values' = MapAssign(values, id[p], storedValue(val[p].value, clock))
  /\ pc' = [pc EXCEPT ![p] = "idle"]
  /\ id' = [id EXCEPT ![p] = ""]
  /\ val' = [val EXCEPT ![p] = ZeroValue]
  /\ exists' = [exists EXCEPT ![p] = FALSE]
  /\ obs' = [obs EXCEPT ![p] = NoObs]
  /\ done' = GetDone(p, val[p].value, TRUE)
  /\ UNCHANGED <<clock, ttl, mu, value, spc, now, ncalls, lastSet, overlap, setArgs, unswept>>

\* Variant: the call returns its argument id in place of val.value.
GetLiveReturnsId(p) ==
  /\ pc[p] = "Get_Check"
  /\ ~Stale(p)
  /\ pc' = [pc EXCEPT ![p] = "idle"]
  /\ id' = [id EXCEPT ![p] = ""]
  /\ val' = [val EXCEPT ![p] = ZeroValue]
  /\ exists' = [exists EXCEPT ![p] = FALSE]
  /\ obs' = [obs EXCEPT ![p] = NoObs]
  /\ done' = GetDone(p, id[p], TRUE)
  /\ UNCHANGED <<clock, ttl, values, mu, value, spc, now, ncalls,
                 lastSet, overlap, setArgs, unswept>>

\* The test of main.go:47 fails: return val.value (main.go:54)
GetLive(p) ==
  /\ pc[p] = "Get_Check"
  /\ ~Stale(p)
  /\ pc' = [pc EXCEPT ![p] = "idle"]
  /\ id' = [id EXCEPT ![p] = ""]
  /\ val' = [val EXCEPT ![p] = ZeroValue]
  /\ exists' = [exists EXCEPT ![p] = FALSE]
  /\ obs' = [obs EXCEPT ![p] = NoObs]
  /\ done' = GetDone(p, val[p].value, TRUE)
  /\ UNCHANGED <<clock, ttl, values, mu, value, spc, now, ncalls,
                 lastSet, overlap, setArgs, unswept>>

\* The test of main.go:47 holds: the call will return "" (main.go:51) once it
\* has deleted the id; val and exists are not read again.
GetStale(p) ==
  /\ pc[p] = "Get_Check"
  /\ Stale(p)
  /\ pc' = [pc EXCEPT ![p] = "Get_Lock"]
  /\ val' = [val EXCEPT ![p] = ZeroValue]
  /\ exists' = [exists EXCEPT ![p] = FALSE]
  /\ obs' = [obs EXCEPT ![p] = NoObs]
  /\ done' = GetDone(p, "", FALSE)
  /\ UNCHANGED <<clock, ttl, values, mu, id, value, spc, now, ncalls,
                 lastSet, overlap, setArgs, unswept>>

\* vs.mu.Lock(); delete(vs.values, id) (main.go:48-49); id is not read again.
GetLock(p) ==
  /\ pc[p] = "Get_Lock"
  /\ CanLock
  /\ mu' = Lock(p)
  /\ values' = MapDelete(values, id[p])
  /\ pc' = [pc EXCEPT ![p] = "Get_Unlock"]
  /\ id' = [id EXCEPT ![p] = ""]
  /\ done' = [NoCall EXCEPT !.op = "Delete", !.by = p, !.id = id[p], !.at = clock,
                            !.snap = IF id[p] \in DOMAIN values
                                     THEN <<values[id[p]]>> ELSE <<>>]
  /\ UNCHANGED <<clock, ttl, value, val, exists, spc, now, ncalls,
                 lastSet, overlap, setArgs, obs>>
  /\ unswept' = MapDelete(unswept, id[p])

\* vs.mu.Unlock(); return "" (main.go:50-51)
GetUnlock(p) ==
  /\ pc[p] = "Get_Unlock"
  /\ mu' = Unlock
  /\ pc' = [pc EXCEPT ![p] = "idle"]
  /\ done' = NoCall
  /\ UNCHANGED <<clock, ttl, values, id, value, val, exists, spc, now, ncalls,
                 lastSet, overlap, setArgs, obs, unswept>>

\* ---------------------------------------------------- startCleanupRoutine
\* Variant: the time is sampled once, when the routine starts, not per tick.
SweepTickSampledAtStart ==
  /\ spc = "wait"
  /\ spc' = "Sweep_Lock"
  /\ now' = 0
  /\ done' = NoCall
  /\ UNCHANGED <<clock, ttl, values, mu, pc, id, value, val, exists, ncalls,
                 lastSet, overlap, setArgs, obs, unswept>>

\* The ticker fires: for range ticker.C; now := time.Now() (main.go:61-62)
SweepTick ==
  /\ spc = "wait"
  /\ spc' = "Sweep_Lock"
  /\ now' = clock
  /\ done' = NoCall
  /\ UNCHANGED <<clock, ttl, values, mu, pc, id, value, val, exists, ncalls,
                 lastSet, overlap, setArgs, obs, unswept>>

\* Variant: the scan deletes an entry as soon as its age reaches the TTL.
SweepExpiredAtTTL(m, at) == {i \in DOMAIN m : at - m[i].timestamp >= ttl}

\* Variant: the scan deletes every entry.
SweepExpiredAll(m, at) == DOMAIN m

\* The ids the scan deletes: now.Sub(val.timestamp) > vs.ttl (main.go:66)
SweepExpired(m, at) == {i \in DOMAIN m : Expired(m[i].timestamp, at)}

\* vs.mu.Lock(); for id, val := range vs.values { ... delete(vs.values, id) }
\* (main.go:64-69); now is not read again.  The scan is recorded with the time
\* it used and the map it started from.
SweepLock ==
  /\ spc = "Sweep_Lock"
  /\ CanLock
  /\ mu' = Lock(Sweeper)
  /\ values' = [j \in (DOMAIN values) \ SweepExpired(values, now) |-> values[j]]
  /\ spc' = "Sweep_Unlock"
  /\ now' = 0
  /\ done' = [NoCall EXCEPT !.op = "Sweep", !.by = Sweeper, !.at = now,
                            !.snap = <<values>>]
  /\ UNCHANGED <<clock, ttl, pc, id, value, val, exists, ncalls,
                 lastSet, overlap, setArgs, obs, unswept>>

\* vs.mu.Unlock() (main.go:70), and back to waiting for the next tick
SweepUnlock ==
  /\ spc = "Sweep_Unlock"
  /\ mu' = Unlock
  /\ spc' = "wait"
  /\ done' = NoCall
  /\ UNCHANGED <<clock, ttl, values, pc, id, value, val, exists, now, ncalls,
                 lastSet, overlap, setArgs, obs, unswept>>

\* ---------------------------------------------------------- specification
Next ==
  \/ Tick
  \/ \E p \in Procs, i \in Ids, v \in Values : SetCall(p, i, v)
  \/ \E p \in Procs : SetLock(p)
  \/ \E p \in Procs : SetUnlock(p)
  \/ \E p \in Procs, i \in Ids : GetCall(p, i)
  \/ \E p \in Procs : GetRLock(p)
  \/ \E p \in Procs : GetRUnlock(p)
  \/ \E p \in Procs : GetLive(p)
  \/ \E p \in Procs : GetStale(p)
  \/ \E p \in Procs : GetLock(p)
  \/ \E p \in Procs : GetUnlock(p)
  \/ SweepTick
  \/ SweepLock
  \/ SweepUnlock

Spec == Init /\ [][Next]_vars

\* The steps a request goroutine takes inside a call, and those of the cleanup
\* goroutine after its tick.
StepOf(p) ==
  \/ SetLock(p) \/ SetUnlock(p)
  \/ GetRLock(p) \/ GetRUnlock(p) \/ GetLive(p) \/ GetStale(p)
  \/ GetLock(p) \/ GetUnlock(p)
SweepStep == SweepLock \/ SweepUnlock

\* Taking a lock: the steps that wait until mu lets them in.
Acquire(p) == SetLock(p) \/ GetRLock(p) \/ GetLock(p)

\* Fair scheduling.  The Go scheduler runs every runnable goroutine, so a step
\* that waits for nothing is taken (weak fairness).  sync.RWMutex lets no
\* waiter starve (the writer mutex hands over in starvation mode, a pending
\* Lock holds back new readers), so when the lock is free again and again
\* some waiting request and the waiting sweep get it (strong fairness; stated
\* for the requests together, which fairness to each of them implies).  Calls
\* and the clock are not forced.
Fairness ==
  /\ \A p \in Procs :
       /\ WF_vars(SetUnlock(p))
       /\ WF_vars(GetRUnlock(p))
       /\ WF_vars(GetLive(p)) /\ WF_vars(GetStale(p))
       /\ WF_vars(GetUnlock(p))
  /\ SF_vars(\E p \in Procs : Acquire(p))
  /\ WF_vars(SweepTick) /\ SF_vars(SweepLock) /\ WF_vars(SweepUnlock)

\* Who waits for whom does not depend on the time: the calls and the sweep
\* take the same locks in the same order whatever the clock reads.  The fair
\* specification therefore lets no time pass, which leaves every step of Set,
\* of Get (both branches of main.go:47) and of the sweep in it.
NextNoTick ==
  \/ \E p \in Procs, i \in Ids, v \in Values : SetCall(p, i, v)
  \/ \E p \in Procs : SetLock(p)
  \/ \E p \in Procs : SetUnlock(p)
  \/ \E p \in Procs, i \in Ids : GetCall(p, i)
  \/ \E p \in Procs : GetRLock(p)
  \/ \E p \in Procs : GetRUnlock(p)
  \/ \E p \in Procs : GetLive(p)
  \/ \E p \in Procs : GetStale(p)
  \/ \E p \in Procs : GetLock(p)
  \/ \E p \in Procs : GetUnlock(p)
  \/ SweepTick
  \/ SweepLock
  \/ SweepUnlock

FairSpec == Init /\ [][NextNoTick]_vars /\ Fairness

\* The store with writers and the sweep only: no goroutine ever calls Get.
\* The ticker keeps firing (main.go:58-61), the cleanup goroutine is scheduled
\* when it can run, and a Set that holds the lock runs on to its deferred
\* Unlock.
NextNoGet ==
  \/ Tick
  \/ \E p \in Procs, i \in Ids, v \in Values : SetCall(p, i, v)
  \/ \E p \in Procs : SetLock(p)
  \/ \E p \in Procs : SetUnlock(p)
  \/ SweepTick
  \/ SweepLock
  \/ SweepUnlock

SweepFairness ==
  /\ WF_vars(SweepTick)
  /\ WF_vars(SweepLock)
  /\ WF_vars(SweepUnlock)
  /\ \A p \in Procs : WF_vars(SetUnlock(p))

SweepSpec == Init /\ [][NextNoGet]_vars /\ SweepFairness

\* ------------------------------------------------------- the HTTP handler
\* What a request can carry: any method, an id and a value that may be
\* missing (the empty string, as r.URL.Query().Get yields it).
Methods == {"GET", "POST", "PUT"}
HttpIds == Ids \cup {""}
HttpValues == Values

\* Variant: the handler does not test the result of store.Get.
GetAnswerNoTest(i, v) == [status |-> 200, id |-> i, value |-> v]

\* The answer to a GET whose store.Get(i) returned v (main.go:87-99)
GetAnswer(i, v) ==
  IF v = "" THEN [status |-> 404, id |-> "", value |-> ""]
  ELSE [status |-> 200, id |-> i, value |-> v]

\* The answer to a POST after store.Set(i, v) (main.go:113-119)
PostAnswer(i, v) == [status |-> 200, id |-> i, value |-> v]

\* Variant: the handler writes to the store before it rejects the request.
RejectAfterWrite(p, m, i, v, s) ==
  /\ pc[p] = "idle"
  /\ values' = IF i \in Ids THEN MapAssign(values, i, storedValue(v, clock)) ELSE EmptyMap
  /\ done' = [op |-> "Http", method |-> m, id |-> i, value |-> v, status |-> s]
  /\ UNCHANGED <<clock, ttl, mu, pc, id, value, val, exists, spc, now, ncalls,
                 lastSet, overlap, setArgs, obs, unswept>>

\* A request answered without a call to the store: http.Error with status s
\* (main.go:82-85, 105-111, 121-123).
Reject(p, m, i, v, s) ==
  /\ pc[p] = "idle"
  /\ done' = [op |-> "Http", method |-> m, id |-> i, value |-> v, status |-> s]
  /\ UNCHANGED <<clock, ttl, values, mu, pc, id, value, val, exists, spc, now, ncalls,
                 lastSet, overlap, setArgs, obs, unswept>>

\* case http.MethodGet (main.go:79-99)
HttpGet(p, i) ==
  IF i = "" THEN Reject(p, "GET", i, "", 400) ELSE GetCall(p, i)

\* Variant: the POST branch tests the id only.
HttpPostTestsIdOnly(p, i, v) ==
  IF i = "" THEN Reject(p, "POST", i, v, 400) ELSE SetCall(p, i, v)

\* case http.MethodPost (main.go:101-119)
HttpPost(p, i, v) ==
  IF i = "" \/ v = "" THEN Reject(p, "POST", i, v, 400) ELSE SetCall(p, i, v)

\* default (main.go:121-123)
HttpOther(p, m) ==
  /\ m \notin {"GET", "POST"}
  /\ Reject(p, m, "", "", 405)

\* The server: every call of the store is made by the handler.
HttpNext ==
  \/ Tick
  \/ \E p \in Procs, i \in HttpIds : HttpGet(p, i)
  \/ \E p \in Procs, i \in HttpIds, v \in HttpValues : HttpPost(p, i, v)
  \/ \E p \in Procs, m \in Methods : HttpOther(p, m)
  \/ \E p \in Procs : SetLock(p)
  \/ \E p \in Procs : SetUnlock(p)
  \/ \E p \in Procs : GetRLock(p)
  \/ \E p \in Procs : GetRUnlock(p)
  \/ \E p \in Procs : GetLive(p)
  \/ \E p \in Procs : GetStale(p)
  \/ \E p \in Procs : GetLock(p)
  \/ \E p \in Procs : GetUnlock(p)
  \/ SweepTick
  \/ SweepLock
  \/ SweepUnlock

HttpSpec == Init /\ [][HttpNext]_vars

\* ------------------------------------------------------------- properties
\* The vocabulary of the claims, written without the operators of the model
\* above, so that a change to one of those shows in the formulas.
Age(t, at) == at - t
Fresh(t, at) == Age(t, at) <= ttl
Entry(w) == [value |-> w.value, timestamp |-> w.timestamp]
Written(i) == lastSet[i] # <<>>
Holds(i) == i \in DOMAIN values

\* The step just taken settled a Get.
GotGet == done.op = "Get"
\* ... whose lookup came after a Set of the id had completed,
GetSawSet == GotGet /\ done.obs.seen # <<>>
\* ... which wrote while no Get of the id held an older lookup.
GetAfterSet == GetSawSet /\ done.obs.clean
Seen == done.obs.seen[1]

\* C1: Set(id, value) followed by Get(id), with no more than the TTL elapsed
\* between the write and Get's test of the age and no other operation on id
\* under way when the Set wrote, returns exactly that value, as found.
C1_SetThenGet ==
  (GetAfterSet /\ Fresh(Seen.timestamp, done.at))
    => (done.found /\ done.value = Seen.value)

C1_Witness ==
  /\ GetAfterSet
  /\ done.found
  /\ done.value = "v1"
  /\ Seen.value = "v1"
  /\ Seen.n = 1
  /\ done.at = Seen.timestamp

\* C2: a Get never removes an entry newer than its lookup, so an id that a Set
\* has written is stored for as long as the write is within the TTL.
C2_GetKeepsNewerEntry ==
  \A i \in Ids :
    (Written(i) /\ Fresh(lastSet[i][1].timestamp, clock))
      => (Holds(i) /\ values[i] = Entry(lastSet[i][1]))

\* C3: a Get that returns a value returns the value of the entry that was
\* stored at its lookup, and that entry's age was at most the TTL when the Get
\* tested it (and so at the lookup before).
C3_NeverReturnsExpired ==
  (GotGet /\ done.found)
    => /\ done.snap # <<>>
       /\ done.obs.seen # <<>>
       /\ done.snap[1] = Entry(Seen)
       /\ done.value = done.snap[1].value
       /\ Age(done.snap[1].timestamp, done.at) >= 0
       /\ Age(done.snap[1].timestamp, done.at) <= ttl

C3_Witness ==
  /\ GotGet
  /\ done.found
  /\ Age(done.snap[1].timestamp, done.at) = ttl
  /\ spc = "Sweep_Lock"
  /\ now > done.snap[1].timestamp

\* C4: after a single Set(id, v) and no other write to id, a Get(id) whose test
\* comes at most the TTL after the write returns v (an age equal to the TTL is
\* still live), and one whose test comes later returns absent.
C4_SingleSetExpiry ==
  (GetAfterSet /\ lastSet[done.id][1].n = 1)
    => IF Age(Seen.timestamp, done.at) <= ttl
       THEN done.found /\ done.value = Seen.value
       ELSE ~done.found /\ done.value = ""

C4_Witness ==
  /\ GetAfterSet
  /\ lastSet[done.id][1].n = 1
  /\ Age(Seen.timestamp, done.at) = ttl
  /\ done.found
  /\ done.value = "v1"

\* C5: after Set(id, v1) and then Set(id, v2), a Get(id) whose test comes at
\* most the TTL after the second write returns v2, however long ago the first
\* write was, and the stored entry carries the second write's timestamp.
C5_OverwriteResetsAge ==
  (GetAfterSet /\ Seen.prior # <<>> /\ Fresh(Seen.timestamp, done.at))
    => /\ done.found
       /\ done.value = Seen.value
       /\ done.snap = <<Entry(Seen)>>

C5_Witness ==
  /\ GetAfterSet
  /\ Seen.prior # <<>>
  /\ Seen.prior[1].value # Seen.value
  /\ Seen.prior[1].timestamp < Seen.timestamp
  /\ Age(Seen.prior[1].timestamp, done.at) > ttl
  /\ Age(Seen.timestamp, done.at) <= ttl
  /\ done.found
  /\ done.value = Seen.value

\* C6: a Get of an id that no Set had written when the Get looked it up
\* returns absent, the empty result, whatever the other ids hold.
C6_NeverWritten ==
  (GotGet /\ done.obs.seen = <<>>)
    => (~done.found /\ done.value = "" /\ done.snap = <<>>)

C6_Witness ==
  /\ GotGet
  /\ done.obs.seen = <<>>
  /\ ~done.found
  /\ \E j \in Ids \ {done.id} : Holds(j) /\ Fresh(values[j].timestamp, clock)

\* C7: the steps of a Get that finds a live entry leave the map as it is, the
\* entry's value and timestamp included; and a Get that tests an entry later
\* than its timestamp + TTL does not find it, whatever Gets came before.
C7_LiveGetLeavesStore ==
  /\ [](GetSawSet /\ Age(Seen.timestamp, done.at) > ttl => ~done.found)
  /\ [][(\E p \in Procs :
           \/ pc[p] = "idle" /\ pc'[p] = "Get_RLock"
           \/ pc[p] = "Get_RLock" /\ pc'[p] = "Get_RUnlock"
           \/ pc[p] = "Get_RUnlock" /\ pc'[p] = "Get_Check"
           \/ pc[p] = "Get_Check" /\ pc'[p] = "idle")
          => values' = values]_vars

C7_Witness ==
  /\ GotGet
  /\ done.found
  /\ Holds(done.id)
  /\ values[done.id] = done.snap[1]
  /\ Age(done.snap[1].timestamp, done.at) > 0
  /\ ncalls = 3
  /\ Seen.n = 1
  /\ \A j \in Ids \ {done.id} : setArgs[j] = {}
  /\ \A q \in Procs : pc[q] = "idle"

\* C8: every value a Get returns as found is the value argument of a Set call
\* made for the same id, and it comes with the timestamp of that same write.
C8_NoInventedValue ==
  (GotGet /\ done.found)
    => /\ done.value \in setArgs[done.id]
       /\ done.obs.seen # <<>>
       /\ done.snap = <<Entry(Seen)>>

C8_Witness ==
  /\ GotGet
  /\ done.found
  /\ done.value = "v1"
  /\ setArgs[done.id] = {"", "v1"}
  /\ \E q \in Procs \ {done.by} : pc[q] = "Set_Unlock"

\* C9: Sets on pairwise distinct ids all take effect: when every id has been
\* written, within the TTL and with no Get holding an older lookup at the
\* write, the map holds each id with what was written for it, and a Get that
\* looked an id up after its write returns that value.
C9_DistinctIdsAllTakeEffect ==
  (\A i \in Ids : Written(i) /\ ~overlap[i] /\ Fresh(lastSet[i][1].timestamp, clock))
    => /\ \A i \in Ids : Holds(i) /\ values[i] = Entry(lastSet[i][1])
       /\ (GotGet /\ done.obs.seen = lastSet[done.id])
            => (done.found /\ done.value = lastSet[done.id][1].value)

C9_Witness ==
  /\ done.op = "Set"
  /\ \A i \in Ids : Written(i) /\ ~overlap[i] /\ Holds(i)
                    /\ Fresh(lastSet[i][1].timestamp, clock)
  /\ \E q \in Procs \ {done.by} : pc[q] = "Set_Lock" /\ id[q] # done.id

\* C10: Sets on the same id are serialized and the last to take the lock wins:
\* a stored entry is exactly the value and timestamp of the last Set to take
\* the lock for its id, the Set that has just written is that Set, and an id
\* written more than once is stored for as long as its last write is within
\* the TTL (no Get having held an older lookup at the write).
C10_LastLockerWins ==
  /\ \A i \in Ids : Holds(i) => (Written(i) /\ values[i] = Entry(lastSet[i][1]))
  /\ \A i \in Ids :
       (Written(i) /\ lastSet[i][1].n > 1 /\ ~overlap[i]
          /\ Fresh(lastSet[i][1].timestamp, clock)) => Holds(i)
  /\ done.op = "Set"
       => /\ Holds(done.id)
          /\ values[done.id] = [value |-> done.value, timestamp |-> done.at]
          /\ mu.w = done.by

C10_Witness ==
  /\ done.op = "Set"
  /\ lastSet[done.id][1].n = 2
  /\ lastSet[done.id][1].prior[1].value # done.value
  /\ values[done.id] = [value |-> done.value, timestamp |-> done.at]
  /\ \E q \in Procs \ {done.by} : pc[q] = "Set_Lock" /\ id[q] = done.id

\* The goroutines inside a section the exclusive lock guards, and those inside
\* the section the shared lock guards.
Writers ==
  {p \in Procs : pc[p] \in {"Set_Unlock", "Get_Unlock"}}
    \cup (IF spc = "Sweep_Unlock" THEN {Sweeper} ELSE {})
Readers == {p \in Procs : pc[p] = "Get_RUnlock"}

\* C15: lazy deletion.  A Get whose lookup found an entry older than the TTL
\* returns absent; the delete it then makes leaves the id out of the map, the
\* entry it removed being the expired one when nothing else touched the id;
\* and the map stays as it is up to the return, since the Get holds the
\* exclusive lock until then.
C15_LazyDeletion ==
  /\ [](/\ (GotGet /\ done.snap # <<>> /\ Age(done.snap[1].timestamp, done.at) > ttl)
             => (~done.found /\ done.value = "" /\ pc[done.by] = "Get_Lock")
        /\ done.op = "Delete"
             => /\ ~Holds(done.id)
                /\ pc[done.by] = "Get_Unlock"
                /\ mu.w = done.by)
  /\ [][(\E p \in Procs : pc[p] = "Get_Unlock") => values' = values]_vars

C15_Witness ==
  /\ done.op = "Delete"
  /\ done.snap # <<>>
  /\ Written(done.id)
  /\ ~overlap[done.id]
  /\ done.snap[1] = Entry(lastSet[done.id][1])
  /\ done.snap[1].value = "v1"
  /\ Age(done.snap[1].timestamp, done.at) > ttl
  /\ ~Holds(done.id)
  /\ spc = "wait"

\* C16: a sweep removes exactly the entries that were older than the TTL at
\* the time the tick sampled: once it has scanned, and until it releases the
\* lock, the map holds the entries of the map it started from whose age at
\* that time is at most the TTL (those written after the sampling included),
\* each with its value and timestamp, and nothing else.
C16_SweepExact ==
  /\ done.op = "Sweep"
       => /\ spc = "Sweep_Unlock"
          /\ mu.w = Sweeper
          /\ \A i \in Ids :
               Holds(i) <=> /\ i \in DOMAIN done.snap[1]
                            /\ Age(done.snap[1][i].timestamp, done.at) <= ttl
          /\ \A i \in Ids : Holds(i) => values[i] = done.snap[1][i]
  /\ spc = "Sweep_Unlock" => (mu.w = Sweeper /\ Writers = {Sweeper} /\ Readers = {})

C16_Witness ==
  /\ done.op = "Sweep"
  /\ \E i, j \in DOMAIN done.snap[1] :
       /\ Age(done.snap[1][i].timestamp, done.at) > ttl
       /\ ~Holds(i)
       /\ done.snap[1][j].timestamp >= done.at
       /\ Holds(j)
       /\ values[j] = done.snap[1][j]

\* C17: lock discipline.  At most one goroutine is inside a section guarded by
\* the exclusive lock, and then none is inside the section guarded by the
\* shared lock; mu says who is where; and every step that changes the map
\* takes the exclusive lock, free of writer and readers before, and holds it
\* after.
C17_LockDiscipline ==
  /\ [](/\ Cardinality(Writers) <= 1
        /\ Writers # {} => Readers = {}
        /\ mu.r = Readers
        /\ IF mu.w = NoOne THEN Writers = {} ELSE Writers = {mu.w})
  /\ [][values' # values
          => (mu.w = NoOne /\ mu.r = {} /\ Writers = {} /\ Readers = {}
              /\ mu'.w # NoOne /\ Writers' = {mu'.w})]_vars

C17_Witness ==
  /\ Readers = Procs
  /\ mu.r = Procs
  /\ spc = "Sweep_Lock"
  /\ \E i \in Ids : Holds(i)

\* C19: a step of Set(id, .) or Get(id) leaves every other identifier as it
\* was: stored or not, and with the same value and timestamp, whatever the
\* age of that entry.
C19_OtherIdsUntouched ==
  [][\A p \in Procs :
       pc'[p] # pc[p]
         => \A j \in Ids \ {IF pc[p] = "idle" THEN id'[p] ELSE id[p]} :
              /\ (j \in DOMAIN values') <=> (j \in DOMAIN values)
              /\ j \in DOMAIN values => values'[j] = values[j]]_vars

C19_Witness ==
  /\ done.op = "Delete"
  /\ done.snap # <<>>
  /\ \E j \in Ids \ {done.id} : Holds(j) /\ Age(values[j].timestamp, clock) > ttl

\* C11: sweep convergence, with no Get ever made.  A scan removes every entry
\* older than the TTL at the time its tick sampled; and an entry that is older
\* than the TTL does not stay: the sweep removes it (or a Set replaces it by a
\* newer one), the sweep being the only code that deletes here.
C11_SweepConverges ==
  /\ [](done.op = "Sweep"
          => \A i \in DOMAIN done.snap[1] :
               Age(done.snap[1][i].timestamp, done.at) > ttl => ~Holds(i))
  /\ \A i \in Ids :
       (Holds(i) /\ Age(values[i].timestamp, clock) > ttl)
         ~> ~(Holds(i) /\ Age(values[i].timestamp, clock) > ttl)

C11_Witness ==
  /\ done.op = "Sweep"
  /\ \E i \in DOMAIN done.snap[1] :
       /\ ~Holds(i)
       /\ lastSet[i][1].n = 1
       /\ done.snap[1][i] = Entry(lastSet[i][1])
       /\ Age(lastSet[i][1].timestamp, done.at) > ttl
  /\ ncalls = 1

\* C18: no operation blocks for ever.  Under fair scheduling every call that
\* has started returns and every sweep that has ticked releases the lock and
\* waits for the next tick; a goroutine that holds the lock, shared or
\* exclusive, can always take its next step (it waits for no lock), and
\* whenever some call or sweep is under way some goroutine can step.
C18_NoIndefiniteBlocking ==
  /\ \A p \in Procs : (pc[p] # "idle") ~> (pc[p] = "idle")
  /\ (spc # "wait") ~> (spc = "wait")
  /\ [](/\ \A p \in Procs : (mu.w = p \/ p \in mu.r) => ENABLED StepOf(p)
        /\ mu.w = Sweeper => ENABLED SweepStep
        /\ ((\E p \in Procs : pc[p] # "idle") \/ spc # "wait")
             => ENABLED ((\E p \in Procs : StepOf(p)) \/ SweepStep))

C18_Witness ==
  /\ pc["p1"] = "Set_Lock"
  /\ pc["p2"] = "Get_Lock"
  /\ id["p1"] = id["p2"]
  /\ spc = "Sweep_Unlock"
  /\ mu.w = Sweeper

\* The step just taken answered a request without calling the store.
Rejected == done.op = "Http"

\* C13: the round trip through the handler.  A POST that reaches the store
\* has a non-empty id and value, stores that value under that id and is
\* answered 200 with them; a GET whose lookup follows that write, tested no
\* later than the TTL after it (no Get of the id being under way at the
\* write), is answered 200 with the id and the value; a GET whose lookup found
\* nothing, or an entry older than the TTL, is answered 404.
C13_HttpRoundTrip ==
  /\ done.op = "Set"
       => /\ done.id # "" /\ done.value # ""
          /\ Holds(done.id)
          /\ values[done.id] = [value |-> done.value, timestamp |-> done.at]
          /\ PostAnswer(done.id, done.value)
               = [status |-> 200, id |-> done.id, value |-> values[done.id].value]
  /\ (GetAfterSet /\ Fresh(Seen.timestamp, done.at))
       => GetAnswer(done.id, done.value)
            = [status |-> 200, id |-> done.id, value |-> Seen.value]
  /\ (GotGet /\ (done.snap = <<>> \/ Age(done.snap[1].timestamp, done.at) > ttl))
       => GetAnswer(done.id, done.value).status = 404

C13_Witness ==
  /\ GetAfterSet
  /\ Fresh(Seen.timestamp, done.at)
  /\ GetAnswer(done.id, done.value) = [status |-> 200, id |-> "b", value |-> "v1"]
  /\ Written("a")
  /\ ~Holds("a")

\* C14: a request answered 400 (GET without id, POST without id or without
\* value) or 405 (another method) changes nothing of the store: the map is
\* the same after the answer as before, and no call of Set or Get is started.
C14_RejectedLeavesStore ==
  /\ [](Rejected
          => \/ done.status = 400 /\ done.method = "GET" /\ done.id = ""
             \/ done.status = 400 /\ done.method = "POST"
                  /\ (done.id = "" \/ done.value = "")
             \/ done.status = 405 /\ done.method \notin {"GET", "POST"})
  /\ [][(done'.op = "Http") => (values' = values /\ pc' = pc /\ mu' = mu)]_vars

C14_Witness ==
  /\ Rejected
  /\ done.status = 400
  /\ done.method = "POST"
  /\ done.value = ""
  /\ Holds(done.id)
  /\ values[done.id].value = "v1"
  /\ \E p \in Procs : pc[p] = "Get_Lock"

\* C20: with every write made through the handler, no stored entry has an
\* empty value or an empty id; so a Get returns the empty string exactly when
\* it did not find the id (absent, or older than the TTL), and an answer of
\* 404 is never given for an entry that the Get found.
C20_NoEmptyStored ==
  /\ \A i \in DOMAIN values : i # "" /\ values[i].value # ""
  /\ \A i \in Ids : "" \notin setArgs[i]
  /\ GotGet
       => /\ (done.value = "") <=> ~done.found
          /\ ~done.found
               <=> (done.snap = <<>> \/ Age(done.snap[1].timestamp, done.at) > ttl)
          /\ (GetAnswer(done.id, done.value).status = 404) <=> ~done.found

C20_Witness ==
  /\ GotGet
  /\ done.value = ""
  /\ GetAnswer(done.id, done.value).status = 404
  /\ done.snap # <<>>
  /\ done.snap[1].value = "v1"
  /\ Age(done.snap[1].timestamp, done.at) > ttl
  /\ setArgs[done.id] = {"v1"}

\* What Get's test of main.go:47, made at time at, yields for a lookup that
\* found the entries e (none, or one).
ResultOf(e, at) ==
  IF e = <<>> \/ Age(e[1].timestamp, at) > ttl
  THEN [found |-> FALSE, value |-> ""]
  ELSE [found |-> TRUE, value |-> e[1].value]

\* C12: the sweep cannot be observed through Get.  unswept is the map of the
\* same run with the sweep's deletes left out (the same Sets and Gets, the
\* same clock).  Every Get returns what it would have returned from the
\* lookup of unswept; and the two maps differ only in entries that are older
\* than the TTL, which the sweep has removed.
C12_SweepUnobservable ==
  /\ GotGet
       => /\ [found |-> done.found, value |-> done.value] = ResultOf(done.obs.un, done.at)
          /\ ResultOf(done.snap, done.at) = ResultOf(done.obs.un, done.at)
  /\ \A i \in Ids :
       IF Holds(i) THEN i \in DOMAIN unswept /\ unswept[i] = values[i]
       ELSE i \in DOMAIN unswept => Age(unswept[i].timestamp, clock) > ttl

C12_Witness ==
  /\ GotGet
  /\ done.snap = <<>>
  /\ done.obs.un # <<>>
  /\ done.obs.un[1].value = "v1"
  /\ ~done.found
  /\ done.id \in DOMAIN unswept
  /\ ~Holds(done.id)

====
